---- MODULE Spec2Model ----
(***************************************************************************)
(* Recipe recommendation service: the feedback -> replenishment protocol   *)
(* of api/main.py over the feedback and recommendation tables of           *)
(* api/database.py and the Elasticsearch index read by api/es_service.py.  *)
(* One user is modelled; the per-user state of different users never       *)
(* interacts (every query is keyed by user_id).                            *)
(* Spec is the request protocol; SpecEngine and SpecRank apply the ranking *)
(* of api/rec_engine.py and api/recommendation_engine.py to the rows of    *)
(* table recipes; SpecLookup applies the bulk vector lookup. SpecSearch is *)
(* the keyword search, SpecConcurrent two feedback requests served at the  *)
(* same time, SpecIngest the offline build of db_init/init.py followed by  *)
(* a POST /recipes request.                                                *)
(***************************************************************************)
EXTENDS Integers, Sequences, FiniteSets, TLC

\* ------------------------------------------------------------------ bounds
NumItems == 2
MaxK == 2
MaxBatchSize == 2
MaxPage == 3
MaxSize == 3
MaxRecipes == 2

\* ------------------------------------------------------- program constants
\* like_weight = 1.0 and dislike_weight = -0.5, both scaled by two
LikeWeightX2 == 2
DislikeWeightX2 == -1
\* "size": 1000 of the match_all query of the random fallback
RandomPoolSize == 1000
\* "size": num_recommendations * 2 of the similarity query
CandidateFactor == 2
\* the largest page size GET /search accepts
MaxPageSize == 100

Items == 1..NumItems
NoVector == <<>>
\* the vector the vectorizer computes for a recipe's text: a fixed catalogue
\* with the directions [1,0], [-1,0], [0,1] in turn
CatalogueVector(r) ==
    IF r % 3 = 1 THEN <<1, 0>> ELSE IF r % 3 = 2 THEN <<-1, 0>> ELSE <<0, 1>>

\* a handler that lets every submitted type through
FeedbackTypesUnchecked == {"like", "dislike", "love"}

FeedbackTypes == {"like", "dislike"}

\* what a client can send as feedback_type
SubmittedTypes == FeedbackTypes \cup {"love"}
\* the collaborator calls that can fail during one request
EsFailures == {"get_vectors", "similarity_search", "random_search"}
Failures == {"save_feedback"} \cup EsFailures

\* The feature_vector column of a row of table recipes: NULL, or the JSON
\* list of the recipe's vector, or a JSON list of zeros.
NullColumn == [json |-> "null", vector |-> NoVector]
FeatureVectorColumn(r) ==
    {NullColumn,
     [json |-> "list", vector |-> CatalogueVector(r)],
     [json |-> "list", vector |-> <<0, 0>>]}

\* A document of the "recipes" index: absent, indexed without a
\* feature_vector field, or indexed with one.
EsDocument(r) ==
    {[indexed |-> FALSE, feature_vector |-> NoVector],
     [indexed |-> TRUE, feature_vector |-> NoVector],
     [indexed |-> TRUE, feature_vector |-> CatalogueVector(r)]}

VARIABLES
    es_index,          \* recipe id -> its document in the Elasticsearch index
    user_feedback,     \* the user's rows of table user_feedback: id -> type
    recommendations,   \* the user's row of table recommendations (JSON id list)
    recipes_table,     \* recipe id -> the feature_vector column of table recipes
    last,              \* the last completed request and what it answered
    in_flight          \* the requests being served: position and local values

vars ==
    <<es_index, user_feedback, recommendations, recipes_table, last, in_flight>>

\* ----------------------------------------------------------------- helpers
AllIds == [i \in 1..NumItems |-> i]

Range(s) == {s[i] : i \in 1..Len(s)}

Min(a, b) == IF a < b THEN a ELSE b

Take(s, n) == SubSeq(s, 1, Min(n, Len(s)))

Dot(v, w) == v[1] * w[1] + v[2] * w[2]

Add(v, w) == <<v[1] + w[1], v[2] + w[2]>>

Scale(c, v) == <<c * v[1], c * v[2]>>

Sign(x) == IF x > 0 THEN 1 ELSE IF x < 0 THEN -1 ELSE 0

\* sequences of n pairwise distinct elements of S
Samples(S, n) ==
    {s \in [1..n -> S] : \A i, j \in 1..n : i # j => s[i] # s[j]}

\* ---------------------------------------------------------------- database
\* api/main.py reaches these operations as db.get_feedback, db.save_feedback,
\* db.get_recommendations and db.save_recommendations; api/database.py holds
\* them as get_user_feedback, submit_feedback, get_saved_recommendations and
\* save_recommendations.
\* DatabaseManager.get_user_feedback: the liked and the disliked ids
GetUserFeedback(fb) ==
    LET rated == [i \in 1..Len(fb) |-> i]
    IN  [liked |-> SelectSeq(rated, LAMBDA r : fb[r] = "like"),
         disliked |-> SelectSeq(rated, LAMBDA r : fb[r] = "dislike")]

\* mutant: the stored JSON is never decoded, the list always reads empty
GetSavedRecommendationsLost(stored) == <<>>

\* DatabaseManager.get_saved_recommendations: the stored id list
GetSavedRecommendations(stored) == stored

\* mutant: INSERT IGNORE, an existing row of the pair keeps its type
SubmitFeedbackRowInsertIgnore(fb, recipe_id, feedback_type) ==
    IF fb[recipe_id] = "none" THEN [fb EXCEPT ![recipe_id] = feedback_type]
    ELSE fb

\* mutant: the row is written but never committed
SubmitFeedbackRowNotCommitted(fb, recipe_id, feedback_type) == fb

\* DatabaseManager.submit_feedback: INSERT ... ON DUPLICATE KEY UPDATE
SubmitFeedbackRow(fb, recipe_id, feedback_type) ==
    [fb EXCEPT ![recipe_id] = feedback_type]

\* DatabaseManager.save_recommendations: the row's id list is replaced
SaveRecommendations(stored, recipe_ids) == recipe_ids

\* remove_recommendation: the id leaves the stored list
RemoveRecommendation(stored, recipe_id) ==
    SelectSeq(stored, LAMBDA r : r # recipe_id)

\* get_multiple_recipes: the recipes of the ids, in the order asked
GetMultipleRecipes(recipe_ids) ==
    SelectSeq(recipe_ids, LAMBDA r : r \in Items)

\* ----------------------------------------------------------- Elasticsearch
\* ElasticsearchService._get_recipe_feature_vectors: the ids (dict keys, in
\* the order asked) whose document is found and has a non-empty vector; a
\* failed lookup is logged and the id is left out
GetRecipeFeatureVectors(recipe_ids, fail) ==
    SelectSeq(recipe_ids,
              LAMBDA r : /\ "get_vectors" \notin fail
                         /\ es_index[r].indexed
                         /\ Len(es_index[r].feature_vector) > 0)

RECURSIVE SumVectors(_)
SumVectors(ids) ==
    IF Len(ids) = 0 THEN <<0, 0>>
    ELSE Add(es_index[Head(ids)].feature_vector, SumVectors(Tail(ids)))

\* ElasticsearchService._create_user_preference_vector. The vector is kept
\* as an integer direction dir: like_weight * mean(liked) + dislike_weight *
\* mean(disliked) times 2 * |liked| * |disliked| (an empty side is left out
\* of the sum and of the factor). unit tells whether the code divided by the
\* norm (norm > 0); with norm = 0 the zero vector is returned as it is.
CreateUserPreferenceVector(liked_feature_vectors, disliked_feature_vectors) ==
    LET nl == Len(liked_feature_vectors)
        nd == Len(disliked_feature_vectors)
        liked_term ==
            IF nl > 0
            THEN Scale(LikeWeightX2 * (IF nd > 0 THEN nd ELSE 1),
                       SumVectors(liked_feature_vectors))
            ELSE <<0, 0>>
        disliked_term ==
            IF nd > 0
            THEN Scale(DislikeWeightX2 * (IF nl > 0 THEN nl ELSE 1),
                       SumVectors(disliked_feature_vectors))
            ELSE <<0, 0>>
        user_preference == Add(liked_term, disliked_term)
    IN  IF nl = 0 /\ nd = 0
        THEN [none |-> TRUE, dir |-> <<0, 0>>, unit |-> FALSE]
        ELSE [none |-> FALSE, dir |-> user_preference,
              unit |-> Dot(user_preference, user_preference) > 0]

\* cosine(query, v) > cosine(query, w), on integers:
\* d / |v| > e / |w|  iff  sign(d) d^2 |w|^2 > sign(e) e^2 |v|^2;
\* the cosine with a zero vector counts as 0
ScoreGreater(query, v, w) ==
    LET nv == IF Dot(v, v) = 0 THEN 1 ELSE Dot(v, v)
        nw == IF Dot(w, w) = 0 THEN 1 ELSE Dot(w, w)
        d == Dot(query, v)
        e == Dot(query, w)
    IN  Sign(d) * d * d * nw > Sign(e) * e * e * nv

ScoreEqual(query, v, w) ==
    ~ScoreGreater(query, v, w) /\ ~ScoreGreater(query, w, v)

\* the hits of a script_score query: best score first, equal scores in
\* index order (one shard)
RECURSIVE RankedHits(_, _)
RankedHits(S, query) ==
    IF S = {} THEN <<>>
    ELSE LET best == CHOOSE r \in S : \A q \in S \ {r} :
                        \/ ScoreGreater(query, es_index[r].feature_vector,
                                        es_index[q].feature_vector)
                        \/ /\ ScoreEqual(query, es_index[r].feature_vector,
                                         es_index[q].feature_vector)
                           /\ r < q
         IN  <<best>> \o RankedHits(S \ {best}, query)

\* the script_score search of generate_recommendations: must_not terms id,
\* cosineSimilarity over feature_vector. The request fails when the cluster
\* does, when a matched document has no feature_vector, and when the query
\* vector has no direction.
ScriptScoreSearch(user_preference, exclude_ids, size, fail) ==
    LET matched == {r \in Items : es_index[r].indexed /\ r \notin Range(exclude_ids)}
    IN  IF \/ "similarity_search" \in fail
           \/ ~user_preference.unit
           \/ \E r \in matched : es_index[r].feature_vector = NoVector
        THEN [error |-> TRUE, hits |-> <<>>]
        ELSE [error |-> FALSE,
              hits |-> Take(RankedHits(matched, user_preference.dir), size)]

\* mutant: random.choices instead of random.sample (draws with replacement)
GetRandomRecipesWithReplacement(num_recommendations, fail) ==
    LET all_recipe_ids == SelectSeq(AllIds, LAMBDA r : es_index[r].indexed)
    IN  IF "random_search" \in fail \/ Len(all_recipe_ids) = 0
        THEN {<<>>}
        ELSE [1..Min(num_recommendations, Len(all_recipe_ids))
                -> Range(all_recipe_ids)]

\* ElasticsearchService._get_random_recipes: a random sample of the ids of
\* the first RandomPoolSize documents; [] when the index is empty or the
\* search raises. The result is one of the returned sequences.
GetRandomRecipes(num_recommendations, fail) ==
    LET all_recipe_ids ==
            Take(SelectSeq(AllIds, LAMBDA r : es_index[r].indexed), RandomPoolSize)
    IN  IF "random_search" \in fail \/ Len(all_recipe_ids) = 0
        THEN {<<>>}
        ELSE Samples(Range(all_recipe_ids),
                     Min(num_recommendations, Len(all_recipe_ids)))

\* the exclusion list generate_recommendations builds for the similarity
\* search: the rated ids a vector was found for, every disliked id, and the
\* previously recommended ids
ExcludeIds(fb, prev_recommended_ids, fail) ==
    GetRecipeFeatureVectors(fb.liked, fail)
        \o GetRecipeFeatureVectors(fb.disliked, fail)
        \o fb.disliked \o prev_recommended_ids

\* ElasticsearchService.generate_recommendations: the possible results, each
\* with the branch (path) that produced it
GenerateRecommendations(fb, prev_recommended_ids, num_recommendations, fail) ==
    LET liked_recipe_ids == fb.liked
        disliked_recipe_ids == fb.disliked
        Random(path) ==
            {[ids |-> s, path |-> path] :
                s \in GetRandomRecipes(num_recommendations, fail)}
        liked_feature_vectors == GetRecipeFeatureVectors(liked_recipe_ids, fail)
        disliked_feature_vectors == GetRecipeFeatureVectors(disliked_recipe_ids, fail)
        user_preference ==
            CreateUserPreferenceVector(liked_feature_vectors, disliked_feature_vectors)
        exclude_ids == ExcludeIds(fb, prev_recommended_ids, fail)
        search_result ==
            ScriptScoreSearch(user_preference, exclude_ids,
                              num_recommendations * CandidateFactor, fail)
    IN  IF Len(liked_recipe_ids) = 0 /\ Len(disliked_recipe_ids) = 0
        THEN Random("no_feedback")
        ELSE IF Len(liked_feature_vectors) = 0 /\ Len(disliked_feature_vectors) = 0
        THEN Random("no_vectors")
        ELSE IF user_preference.none
        THEN Random("no_preference")
        ELSE IF search_result.error
        THEN Random("search_error")
        ELSE IF Len(search_result.hits) = 0
        THEN Random("no_hits")
        ELSE {[ids |-> Take(search_result.hits, num_recommendations),
               path |-> "similarity"]}

\* ---------------------------------------------------------------- requests
\* What is remembered of the last request: its arguments, the answer, the
\* branch of the generator that produced the ids (path), the collaborator
\* calls that were made and failed (fail), and of the state before it: the length of the
\* stored list (len_before), whether the rated id was its first entry
\* (front), the other polarity that was stored for the rated id, if one was
\* (replaced), and whether the
\* request before was a get-recommendations call that answered a non-empty
\* list (repeat).
NoRequest ==
    [op |-> "none", recipe_id |-> 0, feedback_type |-> "", k |-> 0,
     status |-> 0, response |-> <<>>, path |-> "", fail |-> {},
     len_before |-> 0, front |-> FALSE, replaced |-> "", repeat |-> FALSE]

\* the Elasticsearch calls generate_recommendations makes on a branch
CallsMade(path) ==
    IF path \in {"no_feedback", "no_preference"} THEN {"random_search"}
    ELSE IF path = "no_vectors" THEN {"get_vectors", "random_search"}
    ELSE IF path \in {"search_error", "no_hits"}
    THEN {"get_vectors", "similarity_search", "random_search"}
    ELSE IF path = "similarity" THEN {"get_vectors", "similarity_search"}
    ELSE IF path = "save_failed" THEN {"save_feedback"}
    ELSE {}

\* POST /users/{user_id}/feedback
SubmitFeedback(recipe_id, feedback_type, fail) ==
    LET success == "save_feedback" \notin fail
        fb1 == IF success
               THEN SubmitFeedbackRow(user_feedback, recipe_id, feedback_type)
               ELSE user_feedback
        recs1 == RemoveRecommendation(recommendations, recipe_id)
        Answer(status, response, path) ==
            [op |-> "submit_feedback", recipe_id |-> recipe_id,
             feedback_type |-> feedback_type, k |-> 1, status |-> status,
             response |-> response, path |-> path,
             fail |-> fail \cap CallsMade(path),
             len_before |-> Len(recommendations),
             front |-> (Len(recommendations) > 0
                          /\ Head(recommendations) = recipe_id),
             replaced |->
                 (IF user_feedback[recipe_id] \in {"none", feedback_type}
                  THEN "" ELSE user_feedback[recipe_id]),
             repeat |-> FALSE]
    IN  /\ UNCHANGED <<es_index, recipes_table, in_flight>>
        /\ IF feedback_type \notin FeedbackTypes
           THEN \* rejected by the request model (and by the handler's check)
                /\ UNCHANGED <<user_feedback, recommendations>>
                /\ last' = Answer(422, <<>>, "rejected")
           ELSE IF ~success
           THEN \* remove_recommendation has run before success is looked at
                /\ user_feedback' = fb1
                /\ recommendations' = recs1
                /\ last' = Answer(500, <<>>, "save_failed")
           ELSE \E out \in GenerateRecommendations(
                              GetUserFeedback(fb1),
                              GetSavedRecommendations(recs1), 1, fail) :
                    /\ user_feedback' = fb1
                    /\ IF Len(out.ids) = 0
                       THEN \* rec_ids[0] raises IndexError
                            /\ recommendations' = recs1
                            /\ last' = Answer(500, <<>>, out.path)
                       ELSE /\ recommendations' =
                                   SaveRecommendations(recs1, <<out.ids[1]>>)
                            /\ last' = Answer(200, <<out.ids[1]>>, out.path)

\* GET /users/{user_id}/recommendations
GetRecommendations(num_recommendations, fail) ==
    LET rec_ids == GetSavedRecommendations(recommendations)
        Answer(response, path) ==
            [op |-> "get_recommendations", recipe_id |-> 0,
             feedback_type |-> "", k |-> num_recommendations, status |-> 200,
             response |-> response, path |-> path,
             fail |-> fail \cap CallsMade(path),
             len_before |-> Len(recommendations), front |-> FALSE,
             replaced |-> "", repeat |-> (last.op = "get_recommendations"
                           /\ Len(last.response) > 0)]
    IN  /\ UNCHANGED <<es_index, user_feedback, recipes_table, in_flight>>
        /\ IF Len(rec_ids) = 0
           THEN \E out \in GenerateRecommendations(
                              GetUserFeedback(user_feedback), <<>>,
                              num_recommendations, fail) :
                    /\ recommendations' =
                           SaveRecommendations(recommendations, out.ids)
                    /\ last' = Answer(GetMultipleRecipes(out.ids), out.path)
           ELSE /\ UNCHANGED recommendations
                /\ last' = Answer(GetMultipleRecipes(rec_ids), "saved")

\* The index after the offline build: the first with_vector recipes are
\* indexed with their vector, the next without_vector ones without a
\* feature_vector field, the rest are not in the index.
Corpus(with_vector, without_vector) ==
    [r \in Items |->
        IF r <= with_vector
        THEN [indexed |-> TRUE, feature_vector |-> CatalogueVector(r)]
        ELSE IF r <= with_vector + without_vector
        THEN [indexed |-> TRUE, feature_vector |-> NoVector]
        ELSE [indexed |-> FALSE, feature_vector |-> NoVector]]

\* the failure patterns of the Elasticsearch calls of one generation: with
\* no feedback only the random search is called, and after a failed vector
\* lookup the similarity search is not called
EsFailurePatterns(has_feedback) ==
    IF has_feedback
    THEN {fail \in SUBSET EsFailures :
             "get_vectors" \in fail => "similarity_search" \notin fail}
    ELSE {{}, {"random_search"}}

\* the failure patterns of the collaborator calls a request makes: none for
\* a rejected submission and for a list served from the table
SubmitFailures(feedback_type) ==
    IF feedback_type \in FeedbackTypes
    THEN {{"save_feedback"}} \cup EsFailurePatterns(TRUE)
    ELSE {{}}

GetFailures ==
    IF Len(recommendations) = 0
    THEN EsFailurePatterns(\E r \in Items : user_feedback[r] # "none")
    ELSE {{}}

Init ==
    /\ \E with_vector \in 0..NumItems :
           \E without_vector \in 0..(NumItems - with_vector) :
               es_index = Corpus(with_vector, without_vector)
    /\ user_feedback = [r \in Items |-> "none"]
    /\ recommendations = <<>>
    /\ recipes_table = [r \in Items |-> NullColumn]
    /\ last = NoRequest
    /\ in_flight = <<>>

Next ==
    \/ \E r \in Items, t \in SubmittedTypes :
           \E fail \in SubmitFailures(t) : SubmitFeedback(r, t, fail)
    \/ \E k \in 1..MaxK :
           \E fail \in GetFailures : GetRecommendations(k, fail)

Spec == Init /\ [][Next]_vars

TypeOK ==
    /\ \A r \in Items : es_index[r] \in EsDocument(r)
    /\ user_feedback \in [Items -> FeedbackTypes \cup {"none"}]
    /\ recommendations \in Seq(Items)

\* ------------------------------------------------- in-memory engine (v2)
\* rec_engine.RecommendationEngine.__init__: the ids whose feature_vector
\* parses to a list, in the order of the table; feature_matrix is None when
\* there is none
EngineRecipeIds ==
    SelectSeq([i \in 1..Len(recipes_table) |-> i],
              LAMBDA r : recipes_table[r].json = "list")

RECURSIVE SumRows(_)
SumRows(ids) ==
    IF Len(ids) = 0 THEN <<0, 0>>
    ELSE Add(recipes_table[Head(ids)].vector, SumRows(Tail(ids)))

\* the first num ids of the candidates, best cosine first; list.sort is
\* stable, so equal scores stay in the order of recipe_ids
RECURSIVE EngineRanked(_, _)
EngineRanked(S, preference_vector) ==
    IF S = {} THEN <<>>
    ELSE LET best == CHOOSE r \in S : \A q \in S \ {r} :
                        \/ ScoreGreater(preference_vector,
                                        recipes_table[r].vector,
                                        recipes_table[q].vector)
                        \/ /\ ScoreEqual(preference_vector,
                                         recipes_table[r].vector,
                                         recipes_table[q].vector)
                           /\ r < q
         IN  <<best>> \o EngineRanked(S \ {best}, preference_vector)

\* the preference vector of generate_recommendations: like_weight *
\* liked_avg + dislike_weight * disliked_avg, times 2 * nl * nd (an empty
\* side is left out); it is not normalised
EnginePreferenceVector(liked_indices, disliked_indices) ==
    LET nl == Len(liked_indices)
        nd == Len(disliked_indices)
    IN  Add(IF nl > 0
            THEN Scale(LikeWeightX2 * (IF nd > 0 THEN nd ELSE 1),
                       SumRows(liked_indices))
            ELSE <<0, 0>>,
            IF nd > 0
            THEN Scale(DislikeWeightX2 * (IF nl > 0 THEN nl ELSE 1),
                       SumRows(disliked_indices))
            ELSE <<0, 0>>)

\* rec_engine.RecommendationEngine.generate_recommendations: the possible
\* results, each with the branch (path) that produced it
EngineGenerateRecommendations(fb, prev_recommended_ids, num_recommendations) ==
    LET liked_recipe_ids == fb.liked
        disliked_recipe_ids == fb.disliked
        recipe_ids == EngineRecipeIds
        liked_indices ==
            SelectSeq(liked_recipe_ids, LAMBDA r : r \in Range(recipe_ids))
        disliked_indices ==
            SelectSeq(disliked_recipe_ids, LAMBDA r : r \in Range(recipe_ids))
        nl == Len(liked_indices)
        nd == Len(disliked_indices)
        preference_vector ==
            EnginePreferenceVector(liked_indices, disliked_indices)
        excluded_recipe_ids ==
            Range(prev_recommended_ids) \cup Range(liked_recipe_ids)
                \cup Range(disliked_recipe_ids)
        recipe_similarities ==
            EngineRanked(Range(recipe_ids) \ excluded_recipe_ids,
                         preference_vector)
    IN  IF Len(recipe_ids) = 0
        THEN {[ids |-> <<>>, path |-> "no_matrix"]}
        ELSE IF Len(liked_recipe_ids) = 0 /\ Len(disliked_recipe_ids) = 0
        THEN {[ids |-> s, path |-> "no_feedback"] :
                s \in Samples(Range(recipe_ids),
                              Min(num_recommendations, Len(recipe_ids)))}
        ELSE IF nl = 0 /\ nd = 0
        THEN {[ids |-> <<>>, path |-> "no_preference"]}
        ELSE {[ids |-> Take(recipe_similarities, num_recommendations),
               path |-> "similarity"]}

\* one call of the engine's generate_recommendations on the feedback and
\* the previously recommended ids of the state
EngineRequest(num_recommendations) ==
    /\ last.op = "none"
    /\ \E out \in EngineGenerateRecommendations(
                      GetUserFeedback(user_feedback), recommendations,
                      num_recommendations) :
           last' = [NoRequest EXCEPT !.op = "rec_engine",
                                     !.k = num_recommendations,
                                     !.status = 200,
                                     !.response = out.ids,
                                     !.path = out.path,
                                     !.len_before = Len(recommendations)]
    /\ UNCHANGED <<es_index, user_feedback, recommendations, recipes_table,
                   in_flight>>

\* the engine is a function of the table, the feedback and the previous
\* recommendations: every combination is an initial state
InitEngine ==
    /\ es_index = Corpus(0, 0)
    /\ recipes_table \in
          {f \in [Items -> UNION {FeatureVectorColumn(r) : r \in Items}] :
              \A r \in Items : f[r] \in FeatureVectorColumn(r)}
    /\ user_feedback \in [Items -> FeedbackTypes \cup {"none"}]
    /\ recommendations \in UNION {Samples(Items, n) : n \in 0..1}
    /\ last = NoRequest
    /\ in_flight = <<>>

NextEngine == \E k \in 1..MaxK : EngineRequest(k)

SpecEngine == InitEngine /\ [][NextEngine]_vars

\* ---------------------------------------------------- batched engine (v1)
\* the ids of the rows of table recipes
TableIds == [i \in 1..Len(recipes_table) |-> i]

Reverse(s) == [i \in 1..Len(s) |-> s[Len(s) + 1 - i]]

Drop(s, n) == SubSeq(s, Min(n, Len(s)) + 1, Len(s))

\* Two of the orders in which the ids of a Python set are iterated and in
\* which the rows of a SELECT without ORDER BY arrive: ascending and
\* descending id.
EnumerationOrders == {TableIds, Reverse(TableIds)}

\* np.linalg.norm of a stored vector (the stored vectors have integer norms)
VectorNorm(v) == CHOOSE m \in 0..Dot(v, v) : m * m = Dot(v, v)

\* the feature_vector column as the vector store can hold it: the values of
\* FeatureVectorColumn, a list of another dimension, a list with NaN or
\* Infinity, and a string that is not JSON
StoredColumn(r) ==
    FeatureVectorColumn(r)
        \cup {[json |-> "list", vector |-> <<1>>],
              [json |-> "nonfinite", vector |-> NoVector],
              [json |-> "invalid", vector |-> NoVector]}

\* RecommendationEngine._get_recipe_ids: the ids with feature_vector IS NOT
\* NULL, a set; order is the order in which the set is iterated
GetRecipeIds(order) ==
    SelectSeq(order, LAMBDA r : recipes_table[r].json # "null")

\* RecommendationEngine._get_multiple_feature_vectors: the keys of the dict
\* it returns, in the order the rows arrive (rows). A row is skipped when
\* the column is NULL, is not JSON, holds NaN or Infinity, or is all zero;
\* the vector of a kept row is divided by its norm. The dimension is not
\* looked at.
GetMultipleFeatureVectors(recipe_ids, rows) ==
    IF Len(recipe_ids) = 0 THEN <<>>
    ELSE SelectSeq(rows,
             LAMBDA r : /\ r \in Range(recipe_ids)
                        /\ recipes_table[r].json = "list"
                        /\ \E i \in 1..Len(recipes_table[r].vector) :
                               recipes_table[r].vector[i] # 0)

\* the sum of the normalised vectors of the rows ids, as num / den
RECURSIVE SumOfUnitRows(_)
SumOfUnitRows(ids) ==
    IF Len(ids) = 0 THEN [num |-> <<0, 0>>, den |-> 1]
    ELSE LET rest == SumOfUnitRows(Tail(ids))
             v == recipes_table[Head(ids)].vector
             n == VectorNorm(v)
         IN  [num |-> Add(Scale(rest.den, v), Scale(n, rest.num)),
              den |-> n * rest.den]

\* RecommendationEngine.compute_user_preference_vector: like_weight times
\* every normalised liked vector plus dislike_weight times every normalised
\* disliked vector, added up and divided by the norm; None when no vector is
\* found and when the norm is zero. dir is the direction (the sum times
\* 2 * den of the liked sum * den of the disliked sum).
ComputeUserPreferenceVector(liked_recipes, disliked_recipes, rows) ==
    LET feature_vectors ==
            GetMultipleFeatureVectors(liked_recipes \o disliked_recipes, rows)
        liked_sum ==
            SumOfUnitRows(SelectSeq(liked_recipes,
                                    LAMBDA r : r \in Range(feature_vectors)))
        disliked_sum ==
            SumOfUnitRows(SelectSeq(disliked_recipes,
                                    LAMBDA r : r \in Range(feature_vectors)))
        preference_vector ==
            Add(Scale(LikeWeightX2 * disliked_sum.den, liked_sum.num),
                Scale(DislikeWeightX2 * liked_sum.den, disliked_sum.num))
    IN  IF Len(liked_recipes) = 0 /\ Len(disliked_recipes) = 0
        THEN [none |-> TRUE, dir |-> <<0, 0>>, unit |-> FALSE]
        ELSE IF Len(feature_vectors) = 0
        THEN [none |-> TRUE, dir |-> <<0, 0>>, unit |-> FALSE]
        ELSE IF Dot(preference_vector, preference_vector) = 0
        THEN [none |-> TRUE, dir |-> <<0, 0>>, unit |-> FALSE]
        ELSE [none |-> FALSE, dir |-> preference_vector, unit |-> TRUE]

\* mutant: the test "not in exclude_set" always passes
NotExcludedKeepsAll(ids, exclude) == ids

\* the ids that pass the test "not in exclude_set"
NotExcluded(ids, exclude) == SelectSeq(ids, LAMBDA r : r \notin exclude)

\* RecommendationEngine._compute_similarity_batch: the ids of the (id,
\* similarity) pairs of one batch, in the order of the dict of its vectors
ComputeSimilarityBatch(target_vector, recipe_ids, exclude, rows) ==
    IF Len(recipe_ids) = 0 THEN <<>>
    ELSE NotExcluded(GetMultipleFeatureVectors(recipe_ids, rows), exclude)

\* the loop over range(0, len(available_ids), batch_size): the results of
\* the batches, one after the other
RECURSIVE ScoreInBatches(_, _, _, _, _)
ScoreInBatches(available_ids, target_vector, exclude, batch_size, rows) ==
    IF Len(available_ids) = 0 THEN <<>>
    ELSE ComputeSimilarityBatch(target_vector, Take(available_ids, batch_size),
                                exclude, rows)
           \o ScoreInBatches(Drop(available_ids, batch_size), target_vector,
                             exclude, batch_size, rows)

\* mutant: sort(key = similarity) without reverse = True
RECURSIVE SortBySimilarityAscending(_, _)
SortBySimilarityAscending(pairs, target_vector) ==
    IF Len(pairs) = 0 THEN <<>>
    ELSE LET i == CHOOSE i \in 1..Len(pairs) :
                     /\ \A j \in 1..Len(pairs) :
                            ~ScoreGreater(target_vector,
                                          recipes_table[pairs[i]].vector,
                                          recipes_table[pairs[j]].vector)
                     /\ \A j \in 1..(i - 1) :
                            ScoreGreater(target_vector,
                                         recipes_table[pairs[j]].vector,
                                         recipes_table[pairs[i]].vector)
         IN  <<pairs[i]>>
               \o SortBySimilarityAscending(
                      SubSeq(pairs, 1, i - 1) \o SubSeq(pairs, i + 1, Len(pairs)),
                      target_vector)

\* all_similarities.sort(key = similarity, reverse = True): highest
\* similarity first; the sort is stable, pairs of equal similarity keep the
\* order they have in the list
RECURSIVE SortBySimilarity(_, _)
SortBySimilarity(pairs, target_vector) ==
    IF Len(pairs) = 0 THEN <<>>
    ELSE LET i == CHOOSE i \in 1..Len(pairs) :
                     /\ \A j \in 1..Len(pairs) :
                            ~ScoreGreater(target_vector,
                                          recipes_table[pairs[j]].vector,
                                          recipes_table[pairs[i]].vector)
                     /\ \A j \in 1..(i - 1) :
                            ScoreGreater(target_vector,
                                         recipes_table[pairs[i]].vector,
                                         recipes_table[pairs[j]].vector)
         IN  <<pairs[i]>>
               \o SortBySimilarity(
                      SubSeq(pairs, 1, i - 1) \o SubSeq(pairs, i + 1, Len(pairs)),
                      target_vector)

\* RecommendationEngine.find_similar_recipes: the ids of the tuples returned
FindSimilarRecipes(preference_vector, num_recipes, exclude, batch_size, order, rows) ==
    LET all_recipe_ids == GetRecipeIds(order)
        available_ids == NotExcluded(all_recipe_ids, exclude)
        all_similarities ==
            ScoreInBatches(available_ids, preference_vector.dir, exclude,
                           batch_size, rows)
    IN  IF preference_vector.none THEN <<>>
        ELSE IF Len(available_ids) = 0 THEN <<>>
        ELSE Take(SortBySimilarity(all_similarities, preference_vector.dir),
                  num_recipes)

\* the vectors of the scenario corpus of five recipes
ScenarioTable ==
    <<[json |-> "list", vector |-> <<1, 0>>],
      [json |-> "list", vector |-> <<0, 1>>],
      [json |-> "list", vector |-> <<1, 0>>],
      [json |-> "list", vector |-> <<0, 1>>],
      [json |-> "list", vector |-> <<-1, 0>>]>>

\* the numbers of recipes asked for: up to MaxK, and as many as there are rows
RankSizes == (1..MaxK) \cup {Len(recipes_table)}

\* one call of find_similar_recipes with the preference vector of the
\* user's feedback
FindSimilarRecipesCall(num_recipes, exclude, batch_size, order, rows) ==
    /\ last.op = "none"
    /\ recommendations = <<>>
    /\ LET fb == GetUserFeedback(user_feedback)
           preference_vector ==
               ComputeUserPreferenceVector(fb.liked, fb.disliked, rows)
       IN  last' = [op |-> "find_similar_recipes", k |-> num_recipes,
                    exclude |-> exclude, batch_size |-> batch_size,
                    order |-> order, rows |-> rows,
                    none |-> preference_vector.none,
                    dir |-> preference_vector.dir,
                    response |->
                        FindSimilarRecipes(preference_vector, num_recipes,
                                           exclude, batch_size, order, rows)]
    /\ UNCHANGED <<es_index, user_feedback, recommendations, recipes_table,
                   in_flight>>

\* the tables of NumItems rows whose vectors have one dimension
SmallTables ==
    {f \in [Items -> UNION {FeatureVectorColumn(r) : r \in Items}] :
        \A r \in Items : f[r] \in FeatureVectorColumn(r)}

\* the ranking step is a function of the table, the feedback and the
\* arguments: every small table with every feedback, and the scenario corpus
\* with feedback on its first three recipes
InitRank ==
    /\ es_index = Corpus(0, 0)
    /\ \/ /\ recipes_table \in SmallTables
          /\ user_feedback \in [Items -> FeedbackTypes \cup {"none"}]
          /\ recommendations \in UNION {Samples(Items, n) : n \in 0..1}
       \/ /\ recipes_table = ScenarioTable
          /\ user_feedback \in
                {f \in [1..Len(ScenarioTable) -> FeedbackTypes \cup {"none"}] :
                    \A r \in 4..Len(ScenarioTable) : f[r] = "none"}
          /\ recommendations = <<>>
    /\ last = NoRequest
    /\ in_flight = <<>>

\* the exclusion sets handed to find_similar_recipes: every set of ids of a
\* small table; for the scenario corpus the empty set and the rated ids
ExclusionSets ==
    IF Len(recipes_table) <= NumItems THEN SUBSET Range(TableIds)
    ELSE {{}, {r \in Range(TableIds) : user_feedback[r] # "none"}}

\* one call per behaviour: the calls do not change the table or the feedback
NextRank ==
    \/ /\ last.op = "none"
       /\ \E k \in RankSizes : EngineRequest(k)
    \/ /\ last.op = "none"
       /\ \E k \in RankSizes, exclude \in ExclusionSets,
             batch_size \in 1..MaxBatchSize :
              \E order \in EnumerationOrders, rows \in EnumerationOrders :
                  FindSimilarRecipesCall(k, exclude, batch_size, order, rows)

SpecRank == InitRank /\ [][NextRank]_vars

\* one call of _get_multiple_feature_vectors
GetMultipleFeatureVectorsCall(recipe_ids, rows) ==
    /\ last.op = "none"
    /\ last' = [op |-> "get_multiple_feature_vectors",
                recipe_ids |-> recipe_ids,
                response |-> GetMultipleFeatureVectors(recipe_ids, rows)]
    /\ UNCHANGED <<es_index, user_feedback, recommendations, recipes_table,
                   in_flight>>

\* the lookup is a function of the table and the ids asked for: every table
\* of NumItems rows; id NumItems + 1 has no row
InitLookup ==
    /\ es_index = Corpus(0, 0)
    /\ recipes_table \in
          {f \in [Items -> UNION {StoredColumn(r) : r \in Items}] :
              \A r \in Items : f[r] \in StoredColumn(r)}
    /\ user_feedback = [r \in Items |-> "none"]
    /\ recommendations = <<>>
    /\ last = NoRequest
    /\ in_flight = <<>>

NextLookup ==
    /\ last.op = "none"
    /\ \E n \in 0..(NumItems + 1) :
           \E recipe_ids \in Samples(1..(NumItems + 1), n) :
               \E rows \in EnumerationOrders :
                   GetMultipleFeatureVectorsCall(recipe_ids, rows)

SpecLookup == InitLookup /\ [][NextLookup]_vars

\* ------------------------------------------------------------------ claims
NoDuplicates(s) == \A i, j \in 1..Len(s) : i # j => s[i] # s[j]

IsGet == last.op = "get_recommendations"

IsSubmit == last.op = "submit_feedback"

\* documents of the index that carry a feature vector
ValidVectorIds ==
    {r \in Items : es_index[r].indexed /\ es_index[r].feature_vector # NoVector}

IndexedIds == {r \in Items : es_index[r].indexed}

\* C1: no id is in the user's recommendation queue and in the user's liked
\* or disliked feedback at the same time.
C1_QueueDisjointFromFeedback ==
    \A r \in Range(recommendations) : user_feedback[r] = "none"

C2_WitnessSimilarity ==
    /\ IsSubmit /\ last.status = 200 /\ last.path = "similarity"
    /\ Len(recommendations) >= 1

\* C3: after a submit_feedback for the front id of the queue that found a
\* replacement (another id than the rated one), the rated id is not in the
\* queue and the queue is as long as it was before the call.
C3_FrontFeedbackKeepsLength ==
    (IsSubmit /\ last.status = 200 /\ last.front
        /\ last.response # <<last.recipe_id>>)
        => /\ last.recipe_id \notin Range(recommendations)
           /\ Len(recommendations) = last.len_before

C5_GetReturnsAtMostK ==
    IsGet => /\ Len(last.response) <= last.k
             /\ last.response = Take(recommendations, last.k)

\* the generator ran for the last request and returned no id
GeneratedNothing ==
    \/ IsGet /\ last.path # "saved" /\ last.response = <<>>
    \/ IsSubmit /\ last.status = 500 /\ last.path # "save_failed"

\* C6: cold start (no feedback, empty queue, no collaborator failure):
\* generating k recommendations yields exactly min(k, number of items with a
\* valid vector) pairwise distinct ids, each of an item with a valid vector.
C6_ColdStartDrawsValidVectors ==
    (IsGet /\ last.path = "no_feedback" /\ last.fail = {})
        => /\ Len(last.response) = Min(last.k, Cardinality(ValidVectorIds))
           /\ NoDuplicates(last.response)
           /\ Range(last.response) \subseteq ValidVectorIds

\* C8: a generated list is empty only if the corpus holds no item at all.
C8_EmptyOnlyIfCorpusEmpty == GeneratedNothing => IndexedIds = {}

\* C9: when save_feedback succeeded and the replenishment that follows
\* yields no replacement, the submitted feedback stays stored with the
\* submitted polarity.
C9_FeedbackKeptWhenReplenishmentFails ==
    (IsSubmit /\ last.status = 500 /\ last.path # "save_failed")
        => user_feedback[last.recipe_id] = last.feedback_type

\* C9 witness: a submission that was saved and whose replenishment found
\* no replacement.
C9_Witness ==
    /\ IsSubmit /\ last.status = 500 /\ last.path # "save_failed"
    /\ last.feedback_type \in FeedbackTypes

\* C10: when the generator returns no replacement and no collaborator call
\* failed, submit_feedback completes without an error.
C10_NoReplacementIsNoError ==
    (IsSubmit /\ last.path \notin {"rejected", "save_failed"} /\ last.fail = {})
        => last.status = 200

\* C7 (Elasticsearch generator): with feedback but no usable vector, or with
\* a failed vector lookup or similarity search, and the random search
\* working, the answer is a random sample of min(k, index size) ids.
C7_EsFallsBackToRandom ==
    (last.op \in {"get_recommendations", "submit_feedback"}
        /\ last.path \in {"no_vectors", "search_error", "no_hits"}
        /\ "random_search" \notin last.fail)
        => /\ Len(last.response) = Min(last.k, Cardinality(IndexedIds))
           /\ NoDuplicates(last.response)
           /\ Range(last.response) \subseteq IndexedIds

\* the rows the in-memory engine can use
EngineUsableIds == {r \in Items : recipes_table[r].json = "list"}

\* C7: when the user has feedback but none of the rated items has a usable
\* vector, the generator answers the random fallback of min(k, corpus size)
\* ids, not an empty list.
C7_FallbackWhenNoPreference ==
    (last.op = "rec_engine"
        /\ (\E r \in Items : user_feedback[r] # "none")
        /\ (\A q \in Items : user_feedback[q] # "none" => q \notin EngineUsableIds))
        => Len(last.response) = Min(last.k, Cardinality(EngineUsableIds))

\* C11: feedback is last-write-wins per (user, item): after a saved
\* submission the pair carries the submitted polarity, and no id is listed
\* twice in the liked and disliked lists read back (one record per pair, so
\* no id is both liked and disliked).
C11_FeedbackLastWriteWins ==
    /\ NoDuplicates(GetUserFeedback(user_feedback).liked
                       \o GetUserFeedback(user_feedback).disliked)
    /\ (IsSubmit /\ last.path \notin {"rejected", "save_failed"})
          => LET polarity ==
                     IF last.feedback_type = "like" THEN "liked" ELSE "disliked"
                 other ==
                     IF last.feedback_type = "like" THEN "disliked" ELSE "liked"
             IN  /\ last.recipe_id
                       \in Range(GetUserFeedback(user_feedback)[polarity])
                 /\ last.recipe_id
                       \notin Range(GetUserFeedback(user_feedback)[other])

\* C11 witness: a dislike saved for an id that was liked before; the id is
\* read back as disliked only.
C11_Witness ==
    /\ IsSubmit /\ last.path \notin {"rejected", "save_failed"}
    /\ last.replaced = "like" /\ last.feedback_type = "dislike"
    /\ last.recipe_id \in Range(GetUserFeedback(user_feedback).disliked)

\* C12: when a get-recommendations call generates from a preference vector,
\* the exclusion list handed to the similarity search holds exactly the
\* liked, the disliked and the previously recommended ids (none for a call
\* on an empty queue), liked ids without a feature vector included.
C12_ExclusionIsAllRatedAndPrevious ==
    (IsGet /\ last.path \in {"similarity", "search_error", "no_hits"})
        => Range(ExcludeIds(GetUserFeedback(user_feedback), <<>>, last.fail))
              = {r \in Items : user_feedback[r] # "none"}

\* C19: the preference aggregator returns none or a vector of norm 1: the
\* vector a generation built from the feedback vectors (the generator went
\* on to the similarity search) is a unit vector, never a zero vector.
C19_PreferenceIsNoneOrUnit ==
    (last.op \in {"get_recommendations", "submit_feedback"}
        /\ last.path \in {"similarity", "search_error", "no_hits"})
        => LET fb == GetUserFeedback(user_feedback)
               user_preference ==
                   CreateUserPreferenceVector(
                       GetRecipeFeatureVectors(fb.liked, last.fail),
                       GetRecipeFeatureVectors(fb.disliked, last.fail))
           IN  user_preference.none \/ user_preference.unit

\* ------------------------------------------------- claims on the ranking
IsFind == last.op = "find_similar_recipes"

IsEngineRank == last.op = "rec_engine" /\ last.path = "similarity"

RatedIds == {r \in Range(TableIds) : user_feedback[r] # "none"}

\* the rows with a valid vector: a list of the corpus dimension that is not
\* all zero
ScorableIds ==
    {r \in Range(TableIds) :
        /\ recipes_table[r].json = "list"
        /\ Len(recipes_table[r].vector) = Len(CatalogueVector(r))
        /\ \E i \in 1..Len(recipes_table[r].vector) :
               recipes_table[r].vector[i] # 0}

\* what the in-memory engine excludes, and the vector it ranks by
EngineExcluded == Range(recommendations) \cup RatedIds

EngineDirection ==
    LET fb == GetUserFeedback(user_feedback)
    IN  EnginePreferenceVector(
            SelectSeq(fb.liked, LAMBDA r : r \in Range(EngineRecipeIds)),
            SelectSeq(fb.disliked, LAMBDA r : r \in Range(EngineRecipeIds)))

\* C13: the ranking step returns no id of the exclusion set, for every
\* preference vector, exclusion set and corpus.
C13_RankExcludesExclusionSet ==
    /\ IsFind => Range(last.response) \cap last.exclude = {}
    /\ IsEngineRank => Range(last.response) \cap EngineExcluded = {}

\* C13 witness: a ranking that returned ids while a recipe with a valid
\* vector was in the exclusion set.
C13_Witness ==
    /\ IsFind /\ Len(last.response) > 0
    /\ last.exclude \cap ScorableIds # {}

\* C14: the ranking step returns at most k ids, and exactly the scorable,
\* non-excluded ones when they are fewer than k.
C14_RankLength ==
    /\ (IsFind /\ ~last.none) =>
          /\ Len(last.response) <= last.k
          /\ Cardinality(ScorableIds \ last.exclude) < last.k
                => Len(last.response) = Cardinality(ScorableIds \ last.exclude)
    /\ IsEngineRank =>
          /\ Len(last.response) <= last.k
          /\ Cardinality(ScorableIds \ EngineExcluded) < last.k
                => Len(last.response) = Cardinality(ScorableIds \ EngineExcluded)

\* C15: the ranking step is deterministic: the same preference vector,
\* exclusion set, k and corpus give the same ids in the same order, whatever
\* the order in which the ids of the corpus are enumerated.
C15_RankIndependentOfEnumeration ==
    (IsFind /\ ~last.none) =>
        \A order \in EnumerationOrders, rows \in EnumerationOrders :
            FindSimilarRecipes([none |-> FALSE, dir |-> last.dir, unit |-> TRUE],
                               last.k, last.exclude, last.batch_size,
                               order, rows) = last.response

NonIncreasing(ids, dir) ==
    \A i, j \in 1..Len(ids) :
        i < j => ~ScoreGreater(dir, recipes_table[ids[j]].vector,
                               recipes_table[ids[i]].vector)

TrueTopK(ids, dir, exclude) ==
    \A r \in (ScorableIds \ exclude) \ Range(ids), q \in Range(ids) :
        ~ScoreGreater(dir, recipes_table[r].vector, recipes_table[q].vector)

\* the scenario: the five-recipe corpus, recipe 1 liked and nothing else
\* rated, recipe 1 excluded, all recipes asked for
ScenarioFeedback ==
    /\ recipes_table = ScenarioTable
    /\ user_feedback = [r \in 1..Len(ScenarioTable) |->
                           IF r = 1 THEN "like" ELSE "none"]
    /\ last.k = Len(ScenarioTable)

ScenarioOrder(ids) ==
    /\ Len(ids) = 4
    /\ ids[1] = 3 /\ {ids[2], ids[3]} = {2, 4} /\ ids[4] = 5

\* C16: the ranking is in non-increasing order of similarity and a true
\* top-k (no scorable non-excluded recipe left out scores higher than a
\* returned one); in the scenario recipe 3 comes before recipes 2 and 4,
\* which come before recipe 5.
C16_RankIsSortedTopK ==
    /\ (IsFind /\ ~last.none) =>
          /\ NonIncreasing(last.response, last.dir)
          /\ TrueTopK(last.response, last.dir, last.exclude)
          /\ (ScenarioFeedback /\ last.exclude = {1})
                => ScenarioOrder(last.response)
    /\ IsEngineRank =>
          /\ NonIncreasing(last.response, EngineDirection)
          /\ TrueTopK(last.response, EngineDirection, EngineExcluded)
          /\ ScenarioFeedback => ScenarioOrder(last.response)

\* C16 witness: the scenario ranked by find_similar_recipes.
C16_Witness ==
    /\ IsFind /\ ~last.none /\ ScenarioFeedback /\ last.exclude = {1}
    /\ Len(last.response) = 4

\* C17: batched scoring equals single-pass scoring: find_similar_recipes
\* returns for every batch_size the ids, in the order, it returns when the
\* whole corpus is one batch.
C17_BatchedEqualsSinglePass ==
    (IsFind /\ ~last.none) =>
        last.response =
            FindSimilarRecipes([none |-> FALSE, dir |-> last.dir, unit |-> TRUE],
                               last.k, last.exclude, Len(recipes_table),
                               last.order, last.rows)

RECURSIVE SumOfRows(_)
SumOfRows(S) ==
    IF S = {} THEN <<0, 0>>
    ELSE LET r == CHOOSE r \in S : TRUE
         IN  Add(recipes_table[r].vector, SumOfRows(S \ {r}))

\* like_weight * mean(valid liked) + dislike_weight * mean(valid disliked),
\* times 2 * the sizes of the non-empty sets; the term of an empty set is
\* left out
WeightedMeans ==
    LET liked == {r \in ScorableIds : user_feedback[r] = "like"}
        disliked == {r \in ScorableIds : user_feedback[r] = "dislike"}
        nl == IF liked = {} THEN 1 ELSE Cardinality(liked)
        nd == IF disliked = {} THEN 1 ELSE Cardinality(disliked)
    IN  Add(Scale(LikeWeightX2 * nd, SumOfRows(liked)),
            Scale(DislikeWeightX2 * nl, SumOfRows(disliked)))

SameDirection(v, w) ==
    /\ v[1] * w[2] - v[2] * w[1] = 0
    /\ Dot(v, w) > 0

\* C18: the preference vector is the normalisation of like_weight *
\* mean(valid liked vectors) + dislike_weight * mean(valid disliked
\* vectors): it has the direction of that combination, and there is none
\* when the combination is zero.
C18_PreferenceIsWeightedMeans ==
    IsFind =>
        IF Dot(WeightedMeans, WeightedMeans) = 0 THEN last.none
        ELSE ~last.none /\ SameDirection(last.dir, WeightedMeans)

\* C20: the bulk vector lookup returns exactly the requested ids whose
\* stored vector is present, of the corpus dimension, finite and not all
\* zero.
C20_LookupKeepsValidVectorsOnly ==
    (last.op = "get_multiple_feature_vectors") =>
        Range(last.response) = Range(last.recipe_ids) \cap ScorableIds

\* ------------------------------------------------------------------
\* Claims on the feedback handler's effect on the queue
\* ------------------------------------------------------------------

\* the queue without the rated recipe
WithoutRated(queue, recipe_id) == SelectSeq(queue, LAMBDA r : r # recipe_id)

SubmitAnswered(status) ==
    last'.op = "submit_feedback" /\ last'.status = status

\* C24: a successful submit_feedback changes the queue only by removing
\* the rated recipe and appending the one replacement at the tail; the
\* other ids stay, in their order, ahead of the replacement.
C24_QueueChangesByRemoveAndAppend ==
    [][SubmitAnswered(200) =>
          recommendations' =
              WithoutRated(recommendations, last'.recipe_id) \o last'.response
      ]_vars

\* C25: a feedback type that is neither 'like' nor 'dislike' is answered
\* with an error, and the request leaves the stored feedback and the
\* queue as they were and generates no replacement.
C25_UnknownTypeRejectedUnchanged ==
    [][(last'.op = "submit_feedback"
          /\ last'.feedback_type \notin {"like", "dislike"}) =>
          /\ last'.status >= 400
          /\ last'.response = <<>>
          /\ UNCHANGED <<user_feedback, recommendations>>
      ]_vars

C25_Witness ==
    /\ IsSubmit
    /\ last.feedback_type = "love"
    /\ last.status >= 400
    /\ Len(recommendations) > 0
    /\ \E r \in Items : user_feedback[r] # "none"

\* C26: when save_feedback reports failure the request is answered with
\* an error and the state is as before: no feedback record is written,
\* the rated recipe stays in the queue and no replacement is generated.
C26_SaveFailureLeavesState ==
    [][(last'.op = "submit_feedback" /\ "save_feedback" \in last'.fail) =>
          /\ last'.status >= 400
          /\ last'.response = <<>>
          /\ UNCHANGED <<user_feedback, recommendations>>
      ]_vars

\* C27: every successful submit_feedback adds exactly one id to the
\* queue: the queue is one longer than the queue without the rated
\* recipe, so a rating of a recipe that was not queued grows the queue
\* by one.
C27_SuccessfulSubmitAddsOneId ==
    [][SubmitAnswered(200) =>
          Len(recommendations') =
              Len(WithoutRated(recommendations, last'.recipe_id)) + 1
      ]_vars

\* ------------------------------------------------------- keyword search
\* the hits of one page: "from": (page - 1) * size, "size": size
PageOfHits(hits, from_value, size) ==
    SubSeq(hits, from_value + 1, Min(Len(hits), from_value + size))

\* ElasticsearchService.search_recipes: hits is the list of all matching
\* documents, best score first; an exception of the search is answered
\* with None
EsSearchRecipes(hits, page, size, fail) ==
    LET from_value == (page - 1) * size
        total_hits == Len(hits)
        total_pages == (total_hits + size - 1) \div size
    IN  IF fail
        THEN [none |-> TRUE, recipe_ids |-> <<>>, total_hits |-> 0,
              page |-> page, size |-> size, total_pages |-> 0,
              has_next |-> FALSE, has_previous |-> FALSE]
        ELSE [none |-> FALSE,
              recipe_ids |-> PageOfHits(hits, from_value, size),
              total_hits |-> total_hits, page |-> page, size |-> size,
              total_pages |-> total_pages,
              has_next |-> page < total_pages,
              has_previous |-> page > 1]

ValidFuzziness == {"AUTO", "0", "1", "2"}

\* GET /search
SearchRecipes(hits, page, size, fuzziness, fail) ==
    LET Answer(status, called, failed, r) ==
            [op |-> "search_recipes", page |-> page, size |-> size,
             fuzziness |-> fuzziness, status |-> status,
             matching |-> IF called THEN hits ELSE <<>>,
             failed |-> failed,
             response |-> GetMultipleRecipes(r.recipe_ids),
             total_hits |-> r.total_hits, total_pages |-> r.total_pages,
             has_next |-> r.has_next, has_previous |-> r.has_previous]
        nothing == EsSearchRecipes(<<>>, page, 1, TRUE)
        search_results == EsSearchRecipes(hits, page, size, fail)
    IN  /\ UNCHANGED <<es_index, user_feedback, recommendations,
                       recipes_table, in_flight>>
        /\ IF page < 1 \/ size < 1 \/ size > MaxPageSize
              \/ fuzziness \notin ValidFuzziness
           THEN last' = Answer(400, FALSE, FALSE, nothing)
           ELSE IF search_results.none
           THEN \* "if not search_results": the empty first page
                last' = Answer(200, TRUE, TRUE, nothing)
           ELSE last' = Answer(200, TRUE, FALSE, search_results)

\* the matching documents of a query: any documents of the index, in the
\* order of their scores
Matching ==
    UNION {Samples({r \in Items : es_index[r].indexed}, n) : n \in 0..NumItems}

InitSearch == Init

NextSearch ==
    /\ last.op = "none"
    /\ \E page \in 0..MaxPage, size \in (0..MaxSize) \cup {MaxPageSize + 1} :
           \E hits \in Matching, fuzziness \in {"AUTO", "3"}, fail \in BOOLEAN :
               SearchRecipes(hits, page, size, fuzziness, fail)

SpecSearch == InitSearch /\ [][NextSearch]_vars

IsSearch == last.op = "search_recipes" /\ last.status = 200

\* C28: the pagination metadata of an answered keyword search is
\* consistent: total_pages is the ceiling of total_hits / size, has_next
\* says that page * size < total_hits, has_previous that page > 1.
C28_PaginationConsistent ==
    IsSearch =>
        /\ last.total_pages * last.size >= last.total_hits
        /\ (last.total_pages - 1) * last.size < last.total_hits
        /\ last.has_next = (last.page * last.size < last.total_hits)
        /\ last.has_previous = (last.page > 1)

\* the same for the searches Elasticsearch answered
C28_PaginationConsistentWhenSearched ==
    (IsSearch /\ ~last.failed) => C28_PaginationConsistent

\* ------------------------------------ two submit_feedback requests at once
\* The handler holds no lock and no transaction across its store calls, each
\* of which commits on its own: a request advances one call at a time, and
\* the calls of two requests interleave. A request in flight remembers its
\* arguments, its position (pc) and the values the handler has in its local
\* variables user_feedback, prev_recs and rec_ids.
Request(recipe_id, feedback_type) ==
    [pc |-> "save_feedback", recipe_id |-> recipe_id,
     feedback_type |-> feedback_type,
     user_feedback |-> [liked |-> <<>>, disliked |-> <<>>],
     prev_recs |-> <<>>, rec_ids |-> <<>>, status |-> 0]

At(i, pc) == in_flight[i].pc = pc

\* db.save_feedback(user_id, recipe_id, feedback_type)
SaveFeedbackCall(i) ==
    /\ At(i, "save_feedback")
    /\ user_feedback' = SubmitFeedbackRow(user_feedback,
                            in_flight[i].recipe_id, in_flight[i].feedback_type)
    /\ in_flight' = [in_flight EXCEPT ![i].pc = "remove_recommendation"]
    /\ UNCHANGED <<es_index, recommendations, recipes_table, last>>

\* db.remove_recommendation(user_id, recipe_id)
RemoveRecommendationCall(i) ==
    /\ At(i, "remove_recommendation")
    /\ recommendations' =
           RemoveRecommendation(recommendations, in_flight[i].recipe_id)
    /\ in_flight' = [in_flight EXCEPT ![i].pc = "get_feedback"]
    /\ UNCHANGED <<es_index, user_feedback, recipes_table, last>>

\* user_feedback = db.get_feedback(user_id)
GetFeedbackCall(i) ==
    /\ At(i, "get_feedback")
    /\ in_flight' = [in_flight EXCEPT
                        ![i].user_feedback = GetUserFeedback(user_feedback),
                        ![i].pc = "get_recommendations"]
    /\ UNCHANGED <<es_index, user_feedback, recommendations, recipes_table,
                   last>>

\* prev_recs = db.get_recommendations(user_id)
GetRecommendationsCall(i) ==
    /\ At(i, "get_recommendations")
    /\ in_flight' = [in_flight EXCEPT
                        ![i].prev_recs = GetSavedRecommendations(recommendations),
                        ![i].pc = "generate_recommendations"]
    /\ UNCHANGED <<es_index, user_feedback, recommendations, recipes_table,
                   last>>

\* rec_ids = es_service.generate_recommendations(user_feedback, prev_recs,
\* num_recommendations=1); rec_id = rec_ids[0] raises on an empty list
GenerateRecommendationsCall(i) ==
    /\ At(i, "generate_recommendations")
    /\ \E out \in GenerateRecommendations(in_flight[i].user_feedback,
                                          in_flight[i].prev_recs, 1, {}) :
           in_flight' =
               IF Len(out.ids) = 0
               THEN [in_flight EXCEPT ![i].pc = "done", ![i].status = 500]
               ELSE [in_flight EXCEPT ![i].rec_ids = out.ids,
                                      ![i].pc = "save_recommendations"]
    /\ UNCHANGED <<es_index, user_feedback, recommendations, recipes_table,
                   last>>

\* db.save_recommendations(user_id, [rec_id]) and the answer
SaveRecommendationsCall(i) ==
    /\ At(i, "save_recommendations")
    /\ recommendations' =
           SaveRecommendations(recommendations, <<in_flight[i].rec_ids[1]>>)
    /\ in_flight' = [in_flight EXCEPT ![i].pc = "done", ![i].status = 200]
    /\ UNCHANGED <<es_index, user_feedback, recipes_table, last>>

\* the user's queue holds at least two indexed recipes, nothing is rated,
\* and two requests rate two different queued recipes
InitConcurrent ==
    /\ \E with_vector \in 0..NumItems :
           \E without_vector \in 0..(NumItems - with_vector) :
               es_index = Corpus(with_vector, without_vector)
    /\ user_feedback = [r \in Items |-> "none"]
    /\ recommendations \in
          UNION {Samples({r \in Items : es_index[r].indexed}, n) :
                    n \in 2..NumItems}
    /\ recipes_table = [r \in Items |-> NullColumn]
    /\ last = NoRequest
    /\ \E r1 \in Range(recommendations), t1 \in FeedbackTypes :
           \E r2 \in Range(recommendations) \ {r1}, t2 \in FeedbackTypes :
               in_flight = <<Request(r1, t1), Request(r2, t2)>>

Requests == 1..Len(in_flight)

NextConcurrent ==
    \/ \E i \in Requests : SaveFeedbackCall(i)
    \/ \E i \in Requests : RemoveRecommendationCall(i)
    \/ \E i \in Requests : GetFeedbackCall(i)
    \/ \E i \in Requests : GetRecommendationsCall(i)
    \/ \E i \in Requests : GenerateRecommendationsCall(i)
    \/ \E i \in Requests : SaveRecommendationsCall(i)

SpecConcurrent == InitConcurrent /\ [][NextConcurrent]_vars

BothAnswered ==
    /\ Len(in_flight) = 2
    /\ \A i \in Requests : At(i, "done") /\ in_flight[i].status = 200

\* C22: when two submit_feedback requests of one user for two different
\* queued recipes have both been answered, whatever the order of their
\* store calls, no update is lost: both feedback records exist, neither
\* rated recipe is in the queue, and the queue holds the replacement of
\* each request.
C22_NoLostUpdate ==
    BothAnswered =>
        \A i \in Requests :
            /\ user_feedback[in_flight[i].recipe_id] = in_flight[i].feedback_type
            /\ in_flight[i].recipe_id \notin Range(recommendations)
            /\ in_flight[i].rec_ids[1] \in Range(recommendations)

\* ------------------------------------------------ building the catalogue
\* In this part the table recipes is looked at row by row: a recipe has no
\* row (NoRow), or a row whose feature_vector column is NULL or a JSON
\* list. The index is the set of its documents, each with the recipe id it
\* carries in its "id" field and its feature_vector (NoVector when the
\* document has no such field); a recipe can have several documents,
\* because index_recipe indexes without a document id.
NoRow == [json |-> "absent", vector |-> NoVector]

ZeroVector == <<0, 0>>

Document(recipe_id, feature_vector) ==
    [id |-> recipe_id, feature_vector |-> feature_vector]

\* item_exists of the item store
RecipeExists(table, recipe_id) == table[recipe_id] # NoRow

\* db_init/init.py, the insertion loop: a row without feature_vector for
\* every recipe of the file, except those whose INSERT raised
InsertRecipes(table, file, db_errors) ==
    [r \in Items |->
        IF r \in file \ db_errors /\ ~RecipeExists(table, r)
        THEN NullColumn ELSE table[r]]

\* db_init/init.py, the indexing loop: the recipe's vector when its text is
\* not empty, a vector of zeros when it is; a recipe whose es.index call
\* raised is left out
IndexRecipes(file, empty_text, es_errors) ==
    {Document(r, IF r \in empty_text THEN ZeroVector ELSE CatalogueVector(r)) :
        r \in file \ es_errors}

\* db_init/init.py, run on an empty table recipes, once, before the API
\* serves. TfidfVectorizer.fit_transform raises on an empty list of texts:
\* the script ends after the insertion, before anything is indexed.
DbInit(file, empty_text, db_errors, es_errors) ==
    LET fitted == file \ empty_text # {}
    IN  /\ last.op = "none"
        /\ \A r \in Items : ~RecipeExists(recipes_table, r)
        /\ recipes_table' = InsertRecipes(recipes_table, file, db_errors)
        /\ es_index' = IF fitted
                       THEN es_index \cup IndexRecipes(file, empty_text, es_errors)
                       ELSE es_index
        /\ last' = [op |-> "db_init", file |-> file, empty_text |-> empty_text,
                    db_errors |-> db_errors,
                    es_errors |-> IF fitted THEN es_errors ELSE {},
                    status |-> IF fitted THEN 0 ELSE 1]
        /\ UNCHANGED <<user_feedback, recommendations, in_flight>>

\* RecipeService._calculate_feature_vector: the transforms of empty texts
\* are rows of zeros
CalculateFeatureVector(recipe) ==
    IF recipe.empty_text THEN ZeroVector ELSE CatalogueVector(recipe.id)

\* db_manager.add_multiple_recipes as add_recipe uses it: the rows are
\* inserted and their ids returned ("successfully added recipe IDs"), or
\* the call raises
AddMultipleRecipes(table, recipes_with_vectors) ==
    [r \in Items |->
        IF \E i \in 1..Len(recipes_with_vectors) :
               recipes_with_vectors[i].id = r
        THEN LET i == CHOOSE i \in 1..Len(recipes_with_vectors) :
                          recipes_with_vectors[i].id = r
             IN  [json |-> "list",
                  vector |-> CalculateFeatureVector(recipes_with_vectors[i])]
        ELSE table[r]]

\* ElasticsearchService.index_recipe: the document has a feature_vector when
\* recipe data is handed over, the models are loaded and the text is not
\* empty
IndexRecipe(recipe, recipe_data, models_loaded) ==
    Document(recipe.id,
             IF recipe_data /\ models_loaded /\ ~recipe.empty_text
             THEN CatalogueVector(recipe.id) ELSE NoVector)

\* RecipeService.add_recipe: [raised, recipe_ids, table, index]
AddRecipe(recipes_data, fail, es_errors, models_loaded) ==
    LET recipes_with_vectors ==
            SelectSeq(recipes_data,
                      LAMBDA recipe : ~RecipeExists(recipes_table, recipe.id))
        unchanged == [raised |-> FALSE, recipe_ids |-> <<>>,
                      table |-> recipes_table, index |-> es_index]
    IN  IF Len(recipes_data) = 0 THEN unchanged
        ELSE IF Len(recipes_with_vectors) > 0 /\ "calculate" \in fail
        THEN [unchanged EXCEPT !.raised = TRUE]
        ELSE IF Len(recipes_with_vectors) = 0 THEN unchanged
        ELSE IF "add_multiple_recipes" \in fail
        THEN [unchanged EXCEPT !.raised = TRUE]
        ELSE [raised |-> FALSE,
              recipe_ids |-> [i \in 1..Len(recipes_with_vectors) |->
                                 recipes_with_vectors[i].id],
              table |-> AddMultipleRecipes(recipes_table, recipes_with_vectors),
              index |-> es_index \cup
                  \* index_recipe(recipe_data["id"], recipe_data["title"])
                  {IndexRecipe(recipes_with_vectors[i], FALSE, models_loaded) :
                      i \in {j \in 1..Len(recipes_with_vectors) :
                                recipes_with_vectors[j].id \notin es_errors}}]

\* POST /recipes; the request looked at is the first one after the build
CreateRecipes(recipes_data, fail, es_errors, models_loaded) ==
    LET added == AddRecipe(recipes_data, fail, es_errors, models_loaded)
        recipe_ids == added.recipe_ids
        Answer(status, sample_recipe_id) ==
            [op |-> "create_recipes", recipes_data |-> recipes_data,
             status |-> status, recipe_ids |-> recipe_ids,
             added_count |-> Len(recipe_ids),
             skipped_count |-> Len(recipes_data) - Len(recipe_ids),
             sample_recipe_id |-> sample_recipe_id]
    IN  /\ last.op = "db_init"
        /\ recipes_table' = added.table
        /\ es_index' = added.index
        /\ IF added.raised THEN last' = Answer(500, 0)
           ELSE IF Len(recipe_ids) = 0 THEN last' = Answer(200, 0)
           ELSE \E sample_recipe_id \in Range(recipe_ids) :
                    last' = Answer(200, sample_recipe_id)
        /\ UNCHANGED <<user_feedback, recommendations, in_flight>>

\* the recipes one request submits: up to MaxRecipes recipes of different
\* ids, each with text or with every text field empty
RecipeBatches ==
    UNION {{[i \in 1..n |-> [id |-> ids[i], empty_text |-> i \in empty]] :
               ids \in Samples(Items, n), empty \in SUBSET (1..n)} :
           n \in 0..MaxRecipes}

InitIngest ==
    /\ es_index = {}
    /\ recipes_table = [r \in Items |-> NoRow]
    /\ user_feedback = [r \in Items |-> "none"]
    /\ recommendations = <<>>
    /\ last = NoRequest
    /\ in_flight = <<>>

NextIngest ==
    \/ /\ last.op = "none"
       /\ \E file \in SUBSET Items :
              \E empty_text \in SUBSET file, db_errors \in SUBSET file,
                 es_errors \in SUBSET file :
                  DbInit(file, empty_text, db_errors, es_errors)
    \/ /\ last.op = "db_init"
       /\ \E recipes_data \in RecipeBatches :
              \E fail \in {{}, {"calculate"}, {"add_multiple_recipes"}},
                 es_errors \in
                     SUBSET {recipes_data[i].id : i \in 1..Len(recipes_data)},
                 models_loaded \in BOOLEAN :
                  CreateRecipes(recipes_data, fail, es_errors, models_loaded)

SpecIngest == InitIngest /\ [][NextIngest]_vars

C23_AddedRecipesIndexedWithVector ==
    (last.op = "create_recipes" /\ last.status = 200) =>
        \A r \in Range(last.recipe_ids) :
            \E d \in es_index :
                d.id = r /\ d.feature_vector \notin {NoVector, ZeroVector}

====
